---- MODULE Spec2Model ----
(***************************************************************************)
(* A model of src/app.py: the text sanitizer (clean_text), the Word report *)
(* builder (generate_word_report and its helpers) and the Streamlit script *)
(* that runs an extraction attempt and renders the stored result.          *)
(*                                                                         *)
(* Text.  A Python str is modelled as a sequence of tokens.  The marker    *)
(* characters "*", "_", "#" and the whitespace characters are one token    *)
(* each; every other token is a non-empty chunk of characters that holds   *)
(* no marker and no whitespace, so str.replace and str.strip act on the    *)
(* token sequence exactly as they act on the characters.  Non-ASCII        *)
(* literals of the source are written as ASCII stand-ins, with the         *)
(* original literal in a comment.                                          *)
(***************************************************************************)
EXTENDS Naturals, Sequences, FiniteSets, TLC

VARIABLES
    text,       \* sanitizer harness: the string handed to clean_text
    hist,       \* sanitizer harness: results of successive clean_text calls
    data,       \* report harness: the `data` argument of generate_word_report
    mode,       \* report harness: the `mode` argument
    topic,      \* report harness: the `meeting_topic` argument
    logo,       \* report harness: state of the file at LOGO_PATH
    report,     \* report harness: outcome of the call, NoReport before it
    model_response,   \* parse harness: the model response handed to analyze_interview
    outcome,   \* parse harness: what analyze_interview returned, NoAnalysis before
    analysis_result,    \* st.session_state['analysis_result']
    api_key,            \* sidebar widgets, as the last script run read them
    task_mode,
    interview_sub_type,
    company_name,
    product_name,
    meeting_topic,
    uploaded_file,      \* the file uploader: "" when no file is uploaded
    tmp_files,          \* the temporary audio files that exist on disk
    messages,           \* st.error / st.warning messages of the last script run
    docx_file,          \* outcome of generate_word_report in the last script run
    docx_mode,          \* history: the mode that call was given, "" without a call
    attempt             \* history: the last Start Analysis attempt

cleanVars == <<text, hist>>
reportVars == <<data, mode, topic, logo, report>>
parseVars == <<model_response, outcome>>
widgetVars == <<api_key, task_mode, interview_sub_type, company_name, product_name,
                meeting_topic, uploaded_file>>
appVars == <<analysis_result, api_key, task_mode, interview_sub_type, company_name,
             product_name, meeting_topic, uploaded_file, tmp_files, messages,
             docx_file, docx_mode, attempt>>
vars == <<text, hist, data, mode, topic, logo, report, model_response, outcome,
          analysis_result, api_key,
          task_mode, interview_sub_type, company_name, product_name, meeting_topic,
          uploaded_file, tmp_files, messages, docx_file, docx_mode, attempt>>

----------------------------------------------------------------------------
(* Bounds *)

MaxLen == 4         \* longest generated input string, in tokens
MaxApply == 2       \* how many times the harness applies clean_text in a row
MaxKeys == 2        \* most entries of a generated structured_analysis
MaxLangLen == 2     \* longest generated language value, in characters
MaxAttempts == 2    \* how many times Start Analysis is clicked in one session
MaxRespLen == 4     \* longest generated model response text, in tokens

----------------------------------------------------------------------------
(* Python str helpers *)

Whitespace == {" ", "\t", "\n"}

\* str.replace(old, new): leftmost, non-overlapping occurrences, left to right
RECURSIVE Replace(_, _, _)
Replace(s, old, new) ==
    IF Len(s) < Len(old) THEN s
    ELSE IF SubSeq(s, 1, Len(old)) = old
         THEN new \o Replace(SubSeq(s, Len(old) + 1, Len(s)), old, new)
         ELSE <<Head(s)>> \o Replace(Tail(s), old, new)

\* str.strip(): drop leading and trailing whitespace
RECURSIVE LStrip(_)
LStrip(s) ==
    IF s # <<>> /\ Head(s) \in Whitespace THEN LStrip(Tail(s)) ELSE s

RECURSIVE RStrip(_)
RStrip(s) ==
    IF s # <<>> /\ s[Len(s)] \in Whitespace
    THEN RStrip(SubSeq(s, 1, Len(s) - 1)) ELSE s

Strip(s) == RStrip(LStrip(s))

\* `sub in s` for two strs
Contains(s, sub) ==
    \E i \in 1..(Len(s) + 1) :
        /\ i + Len(sub) - 1 <= Len(s)
        /\ SubSeq(s, i, i + Len(sub) - 1) = sub

----------------------------------------------------------------------------
(* clean_text, src/app.py:114-120 (applied to a str) *)

clean_text(s) ==
    LET t1 == Replace(Replace(s, <<"*", "*">>, <<>>), <<"_", "_">>, <<>>)
        t2 == Replace(Replace(t1, <<"#", "#">>, <<>>), <<"#", "#", "#">>, <<>>)
    IN  Strip(t2)

----------------------------------------------------------------------------
(* Python values.  A value parsed from the model's JSON is a record        *)
(* [t, v]: a str (v its tokens), a list (v its items), a dict (v its       *)
(* entries [k, val] in iteration order, keys distinct), None, or "obj":    *)
(* any other non-empty value, such as a nested object used where a point   *)
(* string is expected, held as the text str() gives for it.  Missing marks *)
(* a key the dict does not have.                                           *)

PyStr(s) == [t |-> "str", v |-> s]
PyList(items) == [t |-> "list", v |-> items]
PyDict(entries) == [t |-> "dict", v |-> entries]
PyObj(repr) == [t |-> "obj", v |-> repr]
PyNone == [t |-> "none", v |-> <<>>]
\* the top-level JSON object: v is a record of its four fields
JsonObject(fields) == [t |-> "object", v |-> fields]
Missing == [t |-> "missing", v |-> <<>>]

\* dict.get(field, default) on the top-level result object
Get(d, field, default) == IF d[field].t = "missing" THEN default ELSE d[field]

\* Python truthiness
Truthy(x) ==
    CASE x.t \in {"str", "list", "dict"} -> x.v # <<>>
      [] x.t = "obj" -> TRUE
      [] x.t = "object" -> \E f \in DOMAIN x.v : x.v[f].t # "missing"
      [] OTHER -> FALSE

\* str(x), as called on a point, a summary or a label
Str(x) == x.v

\* `key in d` and d[key] for a dict value
HasKey(d, key) == \E i \in 1..Len(d.v) : d.v[i].k = key
Lookup(d, key) == d.v[CHOOSE i \in 1..Len(d.v) : d.v[i].k = key].val

\* str.lower() on a str spelled one character per token
LowerChar(c) ==
    CASE c = "Z" -> "z" [] c = "H" -> "h" [] c = "C" -> "c" [] c = "N" -> "n"
      [] c = "I" -> "i" [] c = "E" -> "e" [] c = "S" -> "s"
      [] OTHER -> c
Lower(s) == [i \in 1..Len(s) |-> LowerChar(s[i])]

----------------------------------------------------------------------------
(* Word document.  The body is a sequence of paragraphs, each holding one  *)
(* run.  `site` and `key` are history fields: the call site in            *)
(* generate_word_report that added the paragraph and the section key or   *)
(* topic position it was added for.  They are read by properties only.    *)

\* a run as python-docx creates it: no font face, size or colour of its own
NewRun(t) ==
    [text |-> t, name |-> "", eastAsia |-> "", size |-> 0, rgb |-> <<>>, bold |-> FALSE]

\* set_font_style, src/app.py:123-128; sizes in half-points;
\* "Microsoft YaHei" stands for the east-Asian face '微软雅黑'
set_font_style(run, font_size, bold) ==
    [run EXCEPT !.name = "Times New Roman",
                !.eastAsia = "Microsoft YaHei",
                !.size = font_size,
                !.rgb = <<0, 0, 0>>,
                !.bold = bold]

\* the bullet glyph U+2022
Bullet == "(bullet)"

\* add_styled_paragraph, src/app.py:130-153; indents in hundredths of an inch,
\* first_line_indent is the size of the negative (hanging) first-line indent
add_styled_paragraph(doc, where, x, bold, size, is_bullet, indent_level) ==
    LET clean_content == clean_text(Str(x))
        base_indent == 25
        total_indent == base_indent + indent_level * 25
        run == IF is_bullet
               THEN NewRun(<<Bullet, "\t">> \o clean_content)
               ELSE NewRun(clean_content)
    IN  Append(doc,
               [run |-> set_font_style(run, size, bold),
                left_indent |-> IF is_bullet THEN total_indent ELSE 0,
                first_line_indent |-> IF is_bullet THEN base_indent ELSE 0,
                tab_stop |-> IF is_bullet THEN total_indent ELSE 0,
                site |-> where[1], key |-> where[2]])

\* doc.add_paragraph() followed by a styled run (the title, src/app.py:259-263)
add_title_paragraph(doc, t) ==
    Append(doc,
           [run |-> set_font_style(NewRun(t), 32, TRUE),
            left_indent |-> 0, first_line_indent |-> 0, tab_stop |-> 0,
            site |-> "title", key |-> ""])

\* doc.add_paragraph(text): a paragraph whose run is left as created
add_plain_paragraph(doc, where, t) ==
    Append(doc,
           [run |-> NewRun(t),
            left_indent |-> 0, first_line_indent |-> 0, tab_stop |-> 0,
            site |-> where[1], key |-> where[2]])

----------------------------------------------------------------------------
(* SECTION_HEADERS, src/app.py:156-205.  The zh titles are written in     *)
(* pinyin; the source literal is quoted beside each.                      *)

SECTION_HEADERS ==
    [commercial |->
        [zh |-> [company_sales    |-> <<"1.", " ", "ChangJiaXiaoShouBiaoXian">>,   \* 1. 厂家销售表现
                 sales_marketing  |-> <<"2.", " ", "XiaoShouYuYingXiaoCeLue">>,    \* 2. 销售与营销策略
                 channel_strategy |-> <<"3.", " ", "XiaoShouQuDaoCeLue">>,         \* 3. 销售渠道策略
                 org_structure    |-> <<"4.", " ", "ZuZhiJiaGouYuRenYuan">>,       \* 4. 组织架构与人员
                 competition      |-> <<"5.", " ", "JingZhengGeJu">>,              \* 5. 竞争格局
                 trends           |-> <<"6.", " ", "HangYeQuShi">>],               \* 6. 行业趋势
         en |-> [company_sales    |-> <<"1.", " ", "Company", " ", "Sales", " ", "Performance">>,
                 sales_marketing  |-> <<"2.", " ", "Sales", " ", "&", " ", "Marketing", " ", "Strategy">>,
                 channel_strategy |-> <<"3.", " ", "Sales", " ", "Channel", " ", "Strategy">>,
                 org_structure    |-> <<"4.", " ", "Organizational", " ", "Structure">>,
                 competition      |-> <<"5.", " ", "Competition", " ", "Landscape">>,
                 trends           |-> <<"6.", " ", "Industry", " ", "Trends">>]],
     clinical |->
        [zh |-> [clinical_value |-> <<"1.", " ", "LinChuangJiaZhiYuLiaoXiao">>,    \* 1. 临床价值与疗效
                 adoption       |-> <<"2.", " ", "LinChuangYingYongYuShuShi">>,    \* 2. 临床应用与术式
                 competition    |-> <<"3.", " ", "JingPinDuiBi">>,                 \* 3. 竞品对比
                 pain_points    |-> <<"4.", " ", "WeiManZuXuQiuYuTongDian">>,      \* 4. 未满足需求与痛点
                 expectations   |-> <<"5.", " ", "WeiLaiYuQi">>],                  \* 5. 未来预期
         en |-> [clinical_value |-> <<"1.", " ", "Clinical", " ", "Value", " ", "&", " ", "Efficacy">>,
                 adoption       |-> <<"2.", " ", "Adoption", " ", "&", " ", "Usage">>,
                 competition    |-> <<"3.", " ", "Competitive", " ", "Comparison">>,
                 pain_points    |-> <<"4.", " ", "Unmet", " ", "Needs", " ", "&", " ", "Pain", " ", "Points">>,
                 expectations   |-> <<"5.", " ", "Future", " ", "Expectations">>]],
     meeting |->
        [zh |-> [meeting_context |-> <<"1.", " ", "HuiYiBeiJingYuCanHuiRen">>,     \* 1. 会议背景与参会人
                 key_discussion  |-> <<"2.", " ", "HeXinTaoLunNeiRong">>,          \* 2. 核心讨论内容
                 conclusions     |-> <<"3.", " ", "JieLunYuJueCe">>,               \* 3. 结论与决策
                 action_items    |-> <<"4.", " ", "DaiBanShiXiangYuXiaYiBu", " ", "(Follow-up)">>],
                                                                                   \* 4. 待办事项与下一步 (Follow-up)
         en |-> [meeting_context |-> <<"1.", " ", "Context", " ", "&", " ", "Attendees">>,
                 key_discussion  |-> <<"2.", " ", "Key", " ", "Discussion", " ", "Points">>,
                 conclusions     |-> <<"3.", " ", "Conclusions", " ", "&", " ", "Decisions">>,
                 action_items    |-> <<"4.", " ", "Action", " ", "Items", " ", "&", " ", "Follow-ups">>]]]

EmptyDict == [k \in {} |-> <<>>]

\* dict.get(key, default) on a table
TableGet(table, key, default) == IF key \in DOMAIN table THEN table[key] ELSE default

\* key.title() for a section key: each run of letters capitalised
KeyTitle(key) ==
    CASE key = "company_sales" -> <<"Company", "_", "Sales">>
      [] key = "sales_marketing" -> <<"Sales", "_", "Marketing">>
      [] key = "channel_strategy" -> <<"Channel", "_", "Strategy">>
      [] key = "org_structure" -> <<"Org", "_", "Structure">>
      [] key = "competition" -> <<"Competition">>
      [] key = "trends" -> <<"Trends">>
      [] key = "clinical_value" -> <<"Clinical", "_", "Value">>
      [] key = "adoption" -> <<"Adoption">>
      [] key = "pain_points" -> <<"Pain", "_", "Points">>
      [] key = "expectations" -> <<"Expectations">>
      [] key = "meeting_context" -> <<"Meeting", "_", "Context">>
      [] key = "key_discussion" -> <<"Key", "_", "Discussion">>
      [] key = "conclusions" -> <<"Conclusions">>
      [] key = "action_items" -> <<"Action", "_", "Items">>
      [] OTHER -> <<key>>

----------------------------------------------------------------------------
(* generate_word_report, src/app.py:208-317 *)

\* a variant of the language detection that compares case-sensitively
lang_code_of_case_sensitive(d) ==
    LET lang == Get(d, "language", PyStr(<<"e", "n">>)).v
    IN  IF \/ Contains(lang, <<"z", "h">>)
           \/ Contains(lang, <<"c", "h", "i", "n", "e", "s", "e">>)
           \/ Contains(lang, <<"c", "n">>)
        THEN "zh" ELSE "en"

\* language detection, src/app.py:225-229
lang_code_of(d) ==
    LET lang == Lower(Get(d, "language", PyStr(<<"e", "n">>)).v)
    IN  IF \/ Contains(lang, <<"z", "h">>)
           \/ Contains(lang, <<"c", "h", "i", "n", "e", "s", "e">>)
           \/ Contains(lang, <<"c", "n">>)
        THEN "zh" ELSE "en"

\* title and fixed labels, src/app.py:232-257
labels_of(lang_code, company, product, m, topic_arg) ==
    IF lang_code = "zh"
    THEN [title_text |->
              IF m = "meeting"
              THEN (IF topic_arg # <<>> THEN topic_arg ELSE <<"NeiBuHuiYi">>)  \* 内部会议
                       \o <<" ", "-", " ", "HuiYiJiYao">>                              \* 会议纪要
              ELSE company \o <<" ", "-", " ">> \o product \o <<" ", "FangTanJiLu">>,  \* 访谈记录
          type_text |->
              IF m = "meeting" THEN "HuiYi/TaoLun"                                     \* 会议/讨论
              ELSE IF m = "commercial" THEN "ShangYe/ChangShang"                       \* 商业/厂商
              ELSE "LinChuang/ZhuanJia",                                               \* 临床/专家
          date_prefix |-> "RiQi",                                                      \* 日期
          type_prefix |-> "LeiXing",                                                   \* 类型
          exec_title |-> IF m = "meeting" THEN <<"ZhaiYaoGaiLan">>                     \* 摘要概览
                         ELSE <<"ZhiXingZhaiYao">>,                                    \* 执行摘要
          other_title |-> IF m = "meeting" THEN <<"QiTaBuChong">>                      \* 其他补充
                          ELSE <<"QiTaFaXian">>]                                       \* 其他发现
    ELSE [title_text |->
              IF m = "meeting"
              THEN (IF topic_arg # <<>> THEN topic_arg
                    ELSE <<"Internal", " ", "Meeting">>)
                       \o <<" ", "-", " ", "Meeting", " ", "Minutes">>
              ELSE company \o <<" ", "-", " ">> \o product
                       \o <<" ", "Interview", " ", "Record">>,
          type_text |->
              IF m = "meeting" THEN "Meeting/Discussion"
              ELSE IF m = "commercial" THEN "Trade"
              ELSE "Clinical/Expert",
          date_prefix |-> "Date",
          type_prefix |-> "Type",
          exec_title |-> IF m = "meeting" THEN <<"Overview">>
                         ELSE <<"Executive", " ", "Summary">>,
          other_title |-> <<"Other", " ", "Findings">>]

\* "-" * 80
RuleLine ==
    <<"--------------------------------------------------------------------------------">>

\* the taxonomy order, src/app.py:281-287
key_order_of(m) ==
    IF m = "commercial"
    THEN <<"company_sales", "sales_marketing", "channel_strategy",
           "org_structure", "competition", "trends">>
    ELSE IF m = "clinical"
    THEN <<"clinical_value", "adoption", "competition", "pain_points", "expectations">>
    ELSE IF m = "meeting"
    THEN <<"meeting_context", "key_discussion", "conclusions", "action_items">>
    ELSE <<>>

\* `for point in points: add_styled_paragraph(doc, point, size=11, is_bullet=True)`
RECURSIVE add_points(_, _, _)
add_points(doc, where, points) ==
    IF points = <<>> THEN doc
    ELSE add_points(add_styled_paragraph(doc, where, Head(points), FALSE, 22, TRUE, 0),
                    where, Tail(points))

\* one section or topic body: a bullet per list item, else one paragraph
add_value(doc, pointSite, textSite, key, value) ==
    IF value.t = "list"
    THEN add_points(doc, <<pointSite, key>>, value.v)
    ELSE add_styled_paragraph(doc, <<textSite, key>>, value, FALSE, 22, FALSE, 0)

\* a variant of the loop that walks structured_analysis in its own iteration
\* order, rendering the entries whose key is in key_order
RECURSIVE add_sections_input_order_from(_, _, _, _, _)
add_sections_input_order_from(doc, keys, structured, header_map, i) ==
    IF i > Len(structured.v) THEN doc
    ELSE LET key == structured.v[i].k
         IN  IF \E j \in 1..Len(keys) : keys[j] = key
             THEN LET d1 == add_styled_paragraph(doc, <<"section_title", key>>,
                                PyStr(TableGet(header_map, key, KeyTitle(key))),
                                TRUE, 24, FALSE, 0)
                  IN  add_sections_input_order_from(
                          add_value(d1, "section_point", "section_text", key,
                                    structured.v[i].val),
                          keys, structured, header_map, i + 1)
             ELSE add_sections_input_order_from(doc, keys, structured, header_map, i + 1)

add_sections_input_order(doc, keys, structured, header_map) ==
    add_sections_input_order_from(doc, keys, structured, header_map, 1)

\* a variant of the loop without the `if key in structured` test: a key that
\* is absent gets its heading and no points
RECURSIVE add_sections_unguarded(_, _, _, _)
add_sections_unguarded(doc, keys, structured, header_map) ==
    IF keys = <<>> THEN doc
    ELSE LET key == Head(keys)
             points == IF HasKey(structured, key) THEN Lookup(structured, key)
                       ELSE PyList(<<>>)
             d1 == add_styled_paragraph(doc, <<"section_title", key>>,
                       PyStr(TableGet(header_map, key, KeyTitle(key))), TRUE, 24, FALSE, 0)
         IN  add_sections_unguarded(
                 add_value(d1, "section_point", "section_text", key, points),
                 Tail(keys), structured, header_map)

\* the loop over key_order, src/app.py:289-299
RECURSIVE add_sections(_, _, _, _)
add_sections(doc, keys, structured, header_map) ==
    IF keys = <<>> THEN doc
    ELSE LET key == Head(keys)
             rest == Tail(keys)
         IN  IF HasKey(structured, key)
             THEN LET points == Lookup(structured, key)
                      display_title == TableGet(header_map, key, KeyTitle(key))
                      d1 == add_styled_paragraph(doc, <<"section_title", key>>,
                                                 PyStr(display_title), TRUE, 24, FALSE, 0)
                  IN  add_sections(add_value(d1, "section_point", "section_text", key, points),
                                   rest, structured, header_map)
             ELSE add_sections(doc, rest, structured, header_map)

\* the loop over other_dims.items(), src/app.py:305-312
RECURSIVE add_other(_, _, _)
add_other(doc, items, n) ==
    IF items = <<>> THEN doc
    ELSE LET clean_k == clean_text(Head(items).k)
             d1 == add_styled_paragraph(doc, <<"other_topic", ToString(n)>>,
                                        PyStr(clean_k), TRUE, 24, FALSE, 0)
         IN  add_other(add_value(d1, "other_point", "other_text", ToString(n),
                                 Head(items).val),
                       Tail(items), n + 1)

NoReport == [status |-> "none", header_picture |-> FALSE, body |-> <<>>]

Raised(exc) == [status |-> exc, header_picture |-> FALSE, body |-> <<>>]

generate_word_report(d, company, product, date, m, topic_arg, logo_file) ==
    IF Get(d, "language", PyStr(<<"e", "n">>)).t # "str"
    THEN Raised("AttributeError")    \* lang.lower() on a value that is no str
    ELSE
    LET lang_code == lang_code_of(d)
        L == labels_of(lang_code, company, product, m, topic_arg)
        d0 == add_title_paragraph(<<>>, L.title_text)
        info_text == <<L.date_prefix, ":", " ", date, " ", "|", " ",
                       L.type_prefix, ":", " ", L.type_text>>
        d1 == add_styled_paragraph(d0, <<"meta", "">>, PyStr(info_text), FALSE, 21, FALSE, 0)
        d2 == add_plain_paragraph(d1, <<"rule", "">>, RuleLine)
        summary == Get(d, "executive_summary", PyStr(<<>>))
        d3 == IF Truthy(summary)
              THEN add_styled_paragraph(
                       add_styled_paragraph(d2, <<"exec_title", "">>,
                                            PyStr(L.exec_title), TRUE, 28, FALSE, 0),
                       <<"summary", "">>, summary, FALSE, 22, FALSE, 0)
              ELSE d2
        header_map == TableGet(TableGet(SECTION_HEADERS, m, EmptyDict), lang_code, EmptyDict)
        structured == Get(d, "structured_analysis", PyDict(<<>>))
        d4 == IF Truthy(structured)
              THEN add_sections(d3, key_order_of(m), structured, header_map)
              ELSE d3
        other_dims == Get(d, "other_dimensions", PyDict(<<>>))
        d5 == IF Truthy(other_dims)
              THEN add_other(add_styled_paragraph(d4, <<"other_title", "">>,
                                                  PyStr(L.other_title), TRUE, 28, FALSE, 0),
                             other_dims.v, 1)
              ELSE d4
    IN  [status |-> "returned",
         header_picture |-> (logo_file = "ok"),
         body |-> d5]

----------------------------------------------------------------------------
(* Each specification below drives one part of the program and leaves the *)
(* variables of the other parts at these values.                          *)

Content(language, summary, structured, other) ==
    [language |-> language, executive_summary |-> summary,
     structured_analysis |-> structured, other_dimensions |-> other]

CleanIdle == text = <<>> /\ hist = <<>>

ReportIdle ==
    /\ data = Content(Missing, Missing, Missing, Missing)
    /\ mode = "meeting"
    /\ topic = <<>>
    /\ logo = "absent"
    /\ report = NoReport

NoAnalysis == [result |-> PyNone, errors |-> <<"(not called)">>]

ParseIdle ==
    /\ model_response = [kind |-> "exception", text |-> <<>>]
    /\ outcome = NoAnalysis

\* n: its number, which names its temporary file; mode: the mode given to
\* analyze_interview, "" if it was not called; errors: the st.error messages
\* it showed; stored: it assigned analysis_result; result: analysis_result
\* as it left it
NoAttempt == [n |-> 0, mode |-> "", errors |-> <<>>, stored |-> FALSE, result |-> PyNone]

\* the session as a first script run leaves it: src/app.py:110-111, and the
\* widgets at their defaults (first radio option, empty inputs, no upload)
AppStart ==
    /\ analysis_result = PyNone
    /\ api_key = ""
    /\ task_mode = "interview"
    /\ interview_sub_type = "commercial"
    /\ company_name = <<>>
    /\ product_name = <<>>
    /\ meeting_topic = <<>>
    /\ uploaded_file = ""
    /\ tmp_files = {}
    /\ messages = <<>>
    /\ docx_file = NoReport
    /\ docx_mode = ""
    /\ attempt = NoAttempt

----------------------------------------------------------------------------
(* Sanitizer harness: clean_text applied to a generated string, then to   *)
(* its own result.                                                        *)

Alphabet == {"*", "_", "#", " ", "a"}

RECURSIVE StringsUpTo(_)
StringsUpTo(n) ==
    IF n = 0 THEN {<<>>}
    ELSE LET shorter == StringsUpTo(n - 1)
         IN  shorter \cup {Append(s, c) : s \in {x \in shorter : Len(x) = n - 1},
                                          c \in Alphabet}

\* the point string of the spec's markdown-leak scenario
MarkdownLeak ==
    <<"*", "*", "Revenue", "*", "*", " ", "grew", " ", "#", "#", "fast">>

InitClean ==
    /\ text \in StringsUpTo(MaxLen) \cup {MarkdownLeak}
    /\ hist = <<>>
    /\ ReportIdle
    /\ ParseIdle
    /\ AppStart

CleanText ==
    /\ Len(hist) < MaxApply
    /\ hist' = Append(hist, clean_text(IF hist = <<>> THEN text ELSE hist[Len(hist)]))
    /\ UNCHANGED <<text, reportVars, parseVars, appVars>>

NextClean == CleanText

SpecClean == InitClean /\ [][NextClean]_vars

\* C4: applying clean_text to its own result changes nothing.
C4_Idempotent ==
    Len(hist) >= 2 => hist[2] = hist[1]

\* C5: the result of clean_text holds none of "**", "__", "##", "###", neither
\* starts nor ends with whitespace, and for the markdown-leak point it is
\* "Revenue grew fast".
C5_NoMarkersLeft ==
    Len(hist) >= 1 =>
        /\ ~Contains(hist[1], <<"*", "*">>)
        /\ ~Contains(hist[1], <<"_", "_">>)
        /\ ~Contains(hist[1], <<"#", "#">>)
        /\ ~Contains(hist[1], <<"#", "#", "#">>)
        /\ hist[1] # <<>> => /\ hist[1][1] \notin Whitespace
                             /\ hist[1][Len(hist[1])] \notin Whitespace
        /\ text = MarkdownLeak => hist[1] = <<"Revenue", " ", "grew", " ", "fast">>

----------------------------------------------------------------------------
(* Report harness: generate_word_report called once on generated          *)
(* arguments.  The arguments are drawn from three families: one varies    *)
(* the keys and iteration order of structured_analysis, one varies the    *)
(* shapes of the fields, one varies the language value.                   *)

Modes == {"commercial", "clinical", "meeting"}
UnknownMode == "webinar"

Range(f) == {f[i] : i \in DOMAIN f}

TaxonomyKeys == UNION {Range(key_order_of(m)) : m \in Modes}
AllKeys == TaxonomyKeys \cup {"extra_key"}

Zh == PyStr(<<"z", "h">>)
En == PyStr(<<"e", "n">>)

ListVal == PyList(<<PyStr(<<"*", "*", "Point", "*", "*", " ", "one">>), PyStr(<<"two">>)>>)
StrVal == PyStr(<<"single", " ", "text">>)
NestedRepr == <<"{'nested':", " ", "'object'}">>
NestedVal == PyObj(NestedRepr)

\* dict entry lists of at most n entries, keys drawn from K, values from V
RECURSIVE Mappings(_, _, _)
Mappings(n, K, V) ==
    IF n = 0 THEN {<<>>}
    ELSE LET shorter == Mappings(n - 1, K, V)
             longest == {x \in shorter : Len(x) = n - 1}
         IN  shorter \cup
             UNION {{Append(m, [k |-> key, val |-> v]) :
                        key \in K \ {m[i].k : i \in 1..Len(m)}, v \in V} :
                    m \in longest}

EndToEnd ==
    PyDict(<<[k |-> "trends",
              val |-> PyList(<<PyStr(<<"VBP", " ", "reduced", " ", "ASP", " ", "by", " ", "15%">>)>>)],
             [k |-> "company_sales",
              val |-> PyList(<<PyStr(<<"Revenue", " ", "grew", " ", "20%", " ", "YoY">>)>>)]>>)

AllSections ==
    PyDict(<<[k |-> "extra_key", val |-> ListVal],
             [k |-> "action_items", val |-> ListVal],
             [k |-> "conclusions", val |-> StrVal],
             [k |-> "key_discussion", val |-> ListVal],
             [k |-> "meeting_context", val |-> ListVal],
             [k |-> "expectations", val |-> ListVal],
             [k |-> "pain_points", val |-> StrVal],
             [k |-> "adoption", val |-> ListVal],
             [k |-> "clinical_value", val |-> ListVal],
             [k |-> "trends", val |-> ListVal],
             [k |-> "competition", val |-> StrVal],
             [k |-> "org_structure", val |-> ListVal],
             [k |-> "channel_strategy", val |-> ListVal],
             [k |-> "sales_marketing", val |-> ListVal],
             [k |-> "company_sales", val |-> ListVal]>>)

OneTopic == PyDict(<<[k |-> <<"Topic">>, val |-> PyList(<<PyStr(<<"Detail">>)>>)]>>)

ShapeStructured ==
    {Missing, PyDict(<<>>), EndToEnd, AllSections,
     PyDict(<<[k |-> "trends", val |-> NestedVal]>>),
     PyDict(<<[k |-> "expectations", val |-> PyList(<<PyStr(MarkdownLeak), NestedVal>>)],
              [k |-> "clinical_value", val |-> StrVal]>>)}

ShapeOther ==
    {Missing, PyDict(<<>>), OneTopic,
     PyDict(<<[k |-> <<"*", "_", "_", "*", "Risks">>, val |-> NestedVal],
              [k |-> <<"competition">>, val |-> StrVal]>>)}

ShapeSummary ==
    {Missing, PyStr(<<>>), PyStr(<<"*", "*", "X", "*", "*">>), PyStr(<<"*", "*">>)}

LangAlphabet == {"z", "h", "c", "n", "Z", "N", "-"}

RECURSIVE LangStrings(_)
LangStrings(n) ==
    IF n = 0 THEN {<<>>}
    ELSE LET shorter == LangStrings(n - 1)
         IN  shorter \cup {Append(s, c) : s \in {x \in shorter : Len(x) = n - 1},
                                          c \in LangAlphabet}

LangSamples ==
    {<<"c", "h", "i", "n", "e", "s", "e">>,
     <<"C", "h", "i", "n", "e", "s", "e">>,
     <<"C", "H", "I", "N", "E", "S", "E">>,
     <<"c", "h", "i", "n", "e", "s">>,
     <<"z", "h", "-", "C", "N">>,
     <<"e", "n", "-", "U", "S">>,
     <<"e", "n", "-", "C", "N">>,
     <<"E", "n", "g", "l", "i", "s", "h">>,
     <<"u", "n", "k", "n", "o", "w", "n", "-", "v", "a", "l", "u", "e">>}

HarnessCompany == <<"Medtronic">>
HarnessProduct == <<"Stapler">>
HarnessDate == "2025-01-31"

InitOrderFamily ==
    /\ mode \in Modes \cup {UnknownMode}
    /\ \E language \in {Zh, En}, m \in Mappings(MaxKeys, AllKeys, {ListVal, StrVal}) :
           data = Content(language, Missing, PyDict(m), Missing)
    /\ topic = <<>>
    /\ logo = "absent"

InitShapeFamily ==
    /\ mode \in Modes \cup {UnknownMode}
    /\ \E language \in {Zh, En, Missing, PyNone},
          summary \in ShapeSummary, structured \in ShapeStructured, other \in ShapeOther :
           data = Content(language, summary, structured, other)
    /\ topic \in {<<>>, <<"Weekly", " ", "Sync">>}
    /\ logo \in {"absent", "ok", "bad"}

InitLangFamily ==
    /\ mode \in Modes \cup {UnknownMode}
    /\ \E l \in LangStrings(MaxLangLen) \cup LangSamples :
           data = Content(PyStr(l), PyStr(<<"X">>), AllSections, OneTopic)
    /\ topic = <<>>
    /\ logo = "absent"

InitReport ==
    /\ InitOrderFamily \/ InitShapeFamily \/ InitLangFamily
    /\ report = NoReport
    /\ CleanIdle
    /\ ParseIdle
    /\ AppStart

GenerateWordReport ==
    /\ report = NoReport
    /\ report' = generate_word_report(data, HarnessCompany, HarnessProduct, HarnessDate,
                                      mode, topic, logo)
    /\ UNCHANGED <<data, mode, topic, logo, cleanVars, parseVars, appVars>>

NextReport == GenerateWordReport

SpecReport == InitReport /\ [][NextReport]_vars

----------------------------------------------------------------------------
(* Properties of the report builder *)

\* the section taxonomy as the specification states it
Taxonomy(m) ==
    CASE m = "commercial" -> <<"company_sales", "sales_marketing", "channel_strategy",
                               "org_structure", "competition", "trends">>
      [] m = "clinical" -> <<"clinical_value", "adoption", "competition",
                             "pain_points", "expectations">>
      [] m = "meeting" -> <<"meeting_context", "key_discussion", "conclusions",
                            "action_items">>
      [] OTHER -> <<>>

Pos(seq, x) == CHOOSE i \in 1..Len(seq) : seq[i] = x

Body == report.body
Returned == report.status = "returned"
Called == report # NoReport

Structured == Get(data, "structured_analysis", PyDict(<<>>))
OtherDims == Get(data, "other_dimensions", PyDict(<<>>))

SectionSites == {"section_title", "section_point", "section_text"}
OtherSites == {"other_topic", "other_point", "other_text"}

HeadingsOf(key) ==
    {i \in 1..Len(Body) : Body[i].site = "section_title" /\ Body[i].key = key}

\* C1: in every document built for one of the three modes, the section
\* headings appear in the order of the mode's taxonomy: of two headings, the
\* earlier one in the document is for the key earlier in the taxonomy list,
\* whatever the iteration order of structured_analysis.
C1_TaxonomyOrder ==
    (Returned /\ mode \in Modes) =>
        \A i, j \in 1..Len(Body) :
            (i < j /\ Body[i].site = "section_title" /\ Body[j].site = "section_title")
            => /\ Body[i].key \in Range(Taxonomy(mode))
               /\ Body[j].key \in Range(Taxonomy(mode))
               /\ Pos(Taxonomy(mode), Body[i].key) < Pos(Taxonomy(mode), Body[j].key)

\* a document with two headings whose keys structured_analysis iterates in the
\* opposite order
C1_Witness ==
    /\ Returned /\ mode \in Modes
    /\ Len(Structured.v) = 2
    /\ Structured.v[1].k \in Range(Taxonomy(mode))
    /\ Structured.v[2].k \in Range(Taxonomy(mode))
    /\ Pos(Taxonomy(mode), Structured.v[1].k) > Pos(Taxonomy(mode), Structured.v[2].k)
    /\ HeadingsOf(Structured.v[1].k) # {}
    /\ HeadingsOf(Structured.v[2].k) # {}

\* C2: a key gets a section heading (exactly one) if and only if it is in the
\* mode's taxonomy and present in structured_analysis; every section paragraph
\* belongs to such a key, and the other-findings part holds exactly one topic
\* heading per entry of other_dimensions, so no structured key is moved there.
C2_RenderedIffTaxonomyAndPresent ==
    Returned =>
        /\ \A key \in AllKeys :
               /\ HeadingsOf(key) # {}
                    <=> (key \in Range(Taxonomy(mode)) /\ HasKey(Structured, key))
               /\ Cardinality(HeadingsOf(key)) <= 1
        /\ \A i \in 1..Len(Body) :
               Body[i].site \in SectionSites
               => /\ Body[i].key \in Range(Taxonomy(mode))
                  /\ HasKey(Structured, Body[i].key)
        /\ Cardinality({i \in 1..Len(Body) : Body[i].site = "other_topic"})
               = Len(OtherDims.v)
        /\ \A i \in 1..Len(Body) :
               Body[i].site \in SectionSites \cup OtherSites
                   \cup {"title", "meta", "rule", "exec_title", "summary", "other_title"}

\* a document built from a structured_analysis that holds a key outside the
\* mode's taxonomy next to one inside it, while a taxonomy key is absent
C2_Witness ==
    /\ Returned /\ mode \in Modes
    /\ \E i, j \in 1..Len(Structured.v) :
           /\ Structured.v[i].k \notin Range(Taxonomy(mode))
           /\ Structured.v[j].k \in Range(Taxonomy(mode))
           /\ HeadingsOf(Structured.v[j].k) # {}
    /\ \E key \in Range(Taxonomy(mode)) : ~HasKey(Structured, key)

\* a section or topic value that is neither a str nor a list of strs
Malformed(val) ==
    \/ val.t \notin {"str", "list"}
    \/ val.t = "list" /\ \E i \in 1..Len(val.v) : val.v[i].t # "str"

HasMalformedValue ==
    \/ \E i \in 1..Len(Structured.v) : Malformed(Structured.v[i].val)
    \/ \E i \in 1..Len(OtherDims.v) : Malformed(OtherDims.v[i].val)

\* C3: a call whose structured_analysis or other_dimensions holds a value that
\* is neither a list of strings nor a string fails with MalformedContent and
\* returns no document.
C3_MalformedContentFails ==
    (Called /\ HasMalformedValue) =>
        /\ report.status = "MalformedContent"
        /\ Body = <<>>

\* C8: a call with a mode outside the three modes fails with UnknownMode and
\* returns no document.
C8_UnknownModeFails ==
    (Called /\ mode \notin Modes) =>
        /\ report.status = "UnknownMode"
        /\ Body = <<>>

\* the language rule as the specification states it: the value contains "zh",
\* "chinese" or "cn", letters compared without regard to case
UpperOf(c) ==
    CASE c = "z" -> "Z" [] c = "h" -> "H" [] c = "c" -> "C" [] c = "n" -> "N"
      [] c = "i" -> "I" [] c = "e" -> "E" [] c = "s" -> "S"

ContainsAnyCase(s, word) ==
    \E i \in 1..Len(s) :
        /\ i + Len(word) - 1 <= Len(s)
        /\ \A j \in 1..Len(word) : s[i + j - 1] \in {word[j], UpperOf(word[j])}

ChineseValue ==
    /\ data.language.t = "str"
    /\ \/ ContainsAnyCase(data.language.v, <<"z", "h">>)
       \/ ContainsAnyCase(data.language.v, <<"c", "h", "i", "n", "e", "s", "e">>)
       \/ ContainsAnyCase(data.language.v, <<"c", "n">>)

ZhWords ==
    [suffix |-> {"FangTanJiLu", "HuiYiJiYao"},
     date_prefix |-> "RiQi", type_prefix |-> "LeiXing",
     type_text |-> {"HuiYi/TaoLun", "ShangYe/ChangShang", "LinChuang/ZhuanJia"},
     exec_title |-> {<<"ZhaiYaoGaiLan">>, <<"ZhiXingZhaiYao">>},
     other_title |-> {<<"QiTaBuChong">>, <<"QiTaFaXian">>},
     headers |-> UNION {Range(SECTION_HEADERS[m].zh) : m \in Modes}]

EnWords ==
    [suffix |-> {"Record", "Minutes"},
     date_prefix |-> "Date", type_prefix |-> "Type",
     type_text |-> {"Meeting/Discussion", "Trade", "Clinical/Expert"},
     exec_title |-> {<<"Overview">>, <<"Executive", " ", "Summary">>},
     other_title |-> {<<"Other", " ", "Findings">>},
     headers |-> UNION {Range(SECTION_HEADERS[m].en) : m \in Modes}]

LabelsIn(W) ==
    \A i \in 1..Len(Body) :
        LET t == Body[i].run.text
        IN  /\ Body[i].site = "title" => t[Len(t)] \in W.suffix
            /\ Body[i].site = "meta" =>
                   /\ t[1] = W.date_prefix
                   /\ t[8] = W.type_prefix
                   /\ t[Len(t)] \in W.type_text
            /\ Body[i].site = "exec_title" => t \in W.exec_title
            /\ Body[i].site = "other_title" => t \in W.other_title
            /\ Body[i].site = "section_title" => t \in W.headers

AllLabelSites == {"title", "meta", "exec_title", "other_title", "section_title"}

C10_EveryRunStyled ==
    Returned =>
        \A i \in 1..Len(Body) :
            /\ Body[i].run.name # ""
            /\ Body[i].run.eastAsia # ""
            /\ Body[i].run.rgb = <<0, 0, 0>>

----------------------------------------------------------------------------
(* InterviewAnalyzer, src/app.py:320-466.  The Gemini service is outside  *)
(* the program: what it does in one attempt is an input of the attempt.   *)

\* a model response text is a token sequence: Fence is the code fence of
\* three backticks, "json" the language tag, and a payload token stands for a
\* complete JSON document
Fence == "(fence)"

ZhResult == JsonObject(Content(Zh, PyStr(<<"X">>), AllSections, OneTopic))
EnResult == JsonObject(Content(En, Missing, EndToEnd, Missing))
EmptyObject == JsonObject(Content(Missing, Missing, Missing, Missing))

\* json.loads on a payload token
JsonPayloads == {"{zh-report}", "{en-report}", "{}", "[]", "[1]"}

JsonValue(tok) ==
    CASE tok = "{zh-report}" -> ZhResult
      [] tok = "{en-report}" -> EnResult
      [] tok = "{}" -> EmptyObject
      [] tok = "[]" -> PyList(<<>>)
      [] tok = "[1]" -> PyList(<<PyObj(<<"1">>)>>)

\* process_audio, src/app.py:329-342.  `service` is what upload_file and the
\* polling loop meet: an exception, or the state the file leaves PROCESSING in
process_audio(service) ==
    IF service = "exception"
    THEN [resource |-> FALSE, errors |-> <<"Upload Error">>]
    ELSE IF service = "FAILED"
    THEN [resource |-> FALSE, errors |-> <<"Audio processing failed.">>]
    ELSE [resource |-> TRUE, errors |-> <<>>]

\* the inner try of analyze_interview, src/app.py:455-462
parse_response(response) ==
    IF response.kind = "no_text"            \* response.text raises ValueError
    THEN [result |-> PyNone, errors |-> <<"Error: Model output was not valid JSON.">>]
    ELSE LET t0 == response.text
             t1 == IF Contains(t0, <<Fence, "json">>)
                   THEN Replace(Replace(t0, <<Fence, "json">>, <<>>), <<Fence>>, <<>>)
                   ELSE t0
             t2 == Strip(t1)
         IN  IF Len(t2) = 1 /\ t2[1] \in JsonPayloads
             THEN [result |-> JsonValue(t2[1]), errors |-> <<>>]
             ELSE [result |-> PyNone,
                   errors |-> <<"Error: Model output was not valid JSON.">>]

\* analyze_interview, src/app.py:344-466.  has_model is FALSE when __init__
\* caught an exception and left self.model unset
analyze_interview(has_model, response) ==
    IF ~has_model \/ response.kind = "exception"
    THEN [result |-> PyNone, errors |-> <<"Analysis Interrupted">>]
    ELSE parse_response(response)

Responses ==
    {[kind |-> "exception", text |-> <<>>], [kind |-> "no_text", text |-> <<>>],
     [kind |-> "text", text |-> <<"Sorry,", " ", "no", " ", "audio">>]}
    \cup {[kind |-> "text", text |-> <<p>>] : p \in JsonPayloads}
    \cup {[kind |-> "text", text |-> <<Fence, "json", "\n", p, "\n", Fence>>] :
             p \in JsonPayloads}
    \cup {[kind |-> "text", text |-> <<Fence, "\n", p, "\n", Fence>>] : p \in JsonPayloads}

Summary == Get(data, "executive_summary", PyStr(<<>>))

SummaryHeadings == {i \in 1..Len(Body) : Body[i].site = "exec_title"}

\* C12: a returned document has a summary heading exactly when
\* executive_summary is present and non-empty; the heading is followed by one
\* paragraph holding the sanitized summary text, and that body is not empty.
C12_SummaryHeadingHasBody ==
    Returned =>
        /\ SummaryHeadings # {} <=> (Summary.t # "missing" /\ Summary.v # <<>>)
        /\ Cardinality(SummaryHeadings) <= 1
        /\ Cardinality({i \in 1..Len(Body) : Body[i].site = "summary"})
               = Cardinality(SummaryHeadings)
        /\ \A i \in SummaryHeadings :
               /\ i < Len(Body)
               /\ Body[i + 1].site = "summary"
               /\ Body[i + 1].run.text = clean_text(Str(Summary))
               /\ Body[i + 1].run.text # <<>>

----------------------------------------------------------------------------
(* Parse harness: analyze_interview, with the analyzer constructed        *)
(* normally, called once on a generated model response.                   *)

RespAlphabet == {Fence, "json", "\n", "{en-report}", "{}", "Sure"}

RECURSIVE RespStrings(_)
RespStrings(n) ==
    IF n = 0 THEN {<<>>}
    ELSE LET shorter == RespStrings(n - 1)
         IN  shorter \cup {Append(s, c) : s \in {x \in shorter : Len(x) = n - 1},
                                          c \in RespAlphabet}

InitParse ==
    /\ model_response \in Responses
                    \cup {[kind |-> "text", text |-> t] : t \in RespStrings(MaxRespLen)}
    /\ outcome = NoAnalysis
    /\ CleanIdle
    /\ ReportIdle
    /\ AppStart

AnalyzeInterview ==
    /\ outcome = NoAnalysis
    /\ outcome' = analyze_interview(TRUE, model_response)
    /\ UNCHANGED <<model_response, cleanVars, reportVars, appVars>>

NextParse == AnalyzeInterview

SpecParse == InitParse /\ [][NextParse]_vars

\* the JSON documents that are objects
ObjectPayloads == {p \in JsonPayloads : JsonValue(p).t = "object"}

\* the text between an opening fence, with or without the tag "json" after
\* it, and a closing fence
FenceBody(t) ==
    LET inner == SubSeq(t, 2, Len(t) - 1)
    IN  IF inner # <<>> /\ inner[1] = "json" THEN Tail(inner) ELSE inner

\* a JSON object wrapped in a fenced code block
FencedObject(t) ==
    /\ Len(t) >= 2 /\ t[1] = Fence /\ t[Len(t)] = Fence
    /\ Len(Strip(FenceBody(t))) = 1
    /\ Strip(FenceBody(t))[1] \in ObjectPayloads

\* the text without its fence markers and the tags on them
StripFences(t) == Replace(Replace(t, <<Fence, "json">>, <<>>), <<Fence>>, <<>>)

\* a text that is one JSON document, surrounded by whitespace at most
IsJson(t) == Len(Strip(t)) = 1 /\ Strip(t)[1] \in JsonPayloads

ParseFailure ==
    [result |-> PyNone, errors |-> <<"Error: Model output was not valid JSON.">>]

\* C11: for a response whose text is a JSON object in a fenced code block,
\* with or without a language tag after the opening fence, analyze_interview
\* returns the parsed object; for a text that is not valid JSON once the
\* fence is stripped it returns None with the not-valid-JSON error.
C11_FenceStrippedThenParsed ==
    (outcome # NoAnalysis /\ model_response.kind = "text") =>
        /\ FencedObject(model_response.text)
               => outcome = [result |-> JsonValue(Strip(FenceBody(model_response.text))[1]),
                             errors |-> <<>>]
        /\ ~IsJson(StripFences(model_response.text)) => outcome = ParseFailure

----------------------------------------------------------------------------
(* The Streamlit script, src/app.py:468-610.  Every user event re-runs the *)
(* script from the top; an action is one event with the run it causes.     *)

AppDate == "2025-01-31"

\* src/app.py:498-540
interview_mode == IF task_mode = "interview" THEN interview_sub_type ELSE "meeting"

\* src/app.py:556-560
valid_input ==
    ~(task_mode = "interview" /\ (company_name = <<>> \/ product_name = <<>>))

\* the messages of a run that does not start an analysis, src/app.py:552-560
GateMessages ==
    IF uploaded_file # "" /\ analysis_result = PyNone
    THEN IF api_key = "" THEN <<"Please enter API Key in the sidebar.">>
         ELSE IF ~valid_input THEN <<"Please fill in Company & Product info.">>
         ELSE <<>>
    ELSE <<>>

\* the Start Analysis button is drawn, src/app.py:552-564
ButtonShown ==
    uploaded_file # "" /\ analysis_result = PyNone /\ api_key # "" /\ valid_input

\* the report block, src/app.py:585-598
Download(res, company, product, m, topic_arg, logo_file) ==
    IF Truthy(res)
    THEN IF res.t = "object"
         THEN generate_word_report(res.v, company, product, AppDate, m, topic_arg,
                                   logo_file)
         ELSE Raised("AttributeError")      \* res has no .get
    ELSE NoReport

\* the end of every script run, on the values the run reads
RunReportBlock ==
    /\ docx_file' = Download(analysis_result', company_name', product_name',
                              interview_mode', meeting_topic', logo)
    /\ docx_mode' = IF Truthy(analysis_result') THEN interview_mode' ELSE ""
    /\ UNCHANGED <<cleanVars, parseVars, data, mode, topic, report>>

\* a run that no button started
PlainRun ==
    /\ messages' = GateMessages'
    /\ RunReportBlock
    /\ UNCHANGED <<tmp_files, attempt, logo>>

EnterApiKey(k) ==
    /\ k # api_key
    /\ api_key' = k
    /\ UNCHANGED <<analysis_result, task_mode, interview_sub_type, company_name,
                   product_name, meeting_topic, uploaded_file>>
    /\ PlainRun

\* a widget of the branch that is not drawn loses its value
SelectTaskMode(m) ==
    /\ m # task_mode
    /\ task_mode' = m
    /\ interview_sub_type' = "commercial"
    /\ company_name' = <<>>
    /\ product_name' = <<>>
    /\ meeting_topic' = <<>>
    /\ UNCHANGED <<analysis_result, api_key, uploaded_file>>
    /\ PlainRun

SelectSubType(t) ==
    /\ task_mode = "interview"
    /\ t # interview_sub_type
    /\ interview_sub_type' = t
    /\ UNCHANGED <<analysis_result, api_key, task_mode, company_name, product_name,
                   meeting_topic, uploaded_file>>
    /\ PlainRun

EnterCompany(c) ==
    /\ task_mode = "interview"
    /\ c # company_name
    /\ company_name' = c
    /\ UNCHANGED <<analysis_result, api_key, task_mode, interview_sub_type,
                   product_name, meeting_topic, uploaded_file>>
    /\ PlainRun

EnterProduct(c) ==
    /\ task_mode = "interview"
    /\ c # product_name
    /\ product_name' = c
    /\ UNCHANGED <<analysis_result, api_key, task_mode, interview_sub_type,
                   company_name, meeting_topic, uploaded_file>>
    /\ PlainRun

EnterTopic(c) ==
    /\ task_mode = "meeting"
    /\ c # meeting_topic
    /\ meeting_topic' = c
    /\ UNCHANGED <<analysis_result, api_key, task_mode, interview_sub_type,
                   company_name, product_name, uploaded_file>>
    /\ PlainRun

UploadFile(f) ==
    /\ f # uploaded_file
    /\ uploaded_file' = f
    /\ UNCHANGED <<analysis_result, api_key, task_mode, interview_sub_type,
                   company_name, product_name, meeting_topic>>
    /\ PlainRun

\* src/app.py:543-545
ClickReset ==
    /\ analysis_result' = PyNone
    /\ UNCHANGED widgetVars
    /\ PlainRun

\* the Start Analysis handler, src/app.py:564-583, with the re-run it asks
\* for after a success
ClickStartAnalysis(init_failed, service, response) ==
    /\ ButtonShown
    /\ attempt.n < MaxAttempts
    /\ LET tmp_file_path == attempt.n + 1
           has_model == ~init_failed       \* InterviewAnalyzer.__init__, :321-327
           init_errors == IF init_failed THEN <<"API Error">> ELSE <<>>
           audio == process_audio(service)
           analysis == IF audio.resource
                       THEN analyze_interview(has_model, response)
                       ELSE [result |-> PyNone, errors |-> <<>>]
           errors == init_errors \o audio.errors \o analysis.errors
           stored == audio.resource /\ Truthy(analysis.result)
       IN  /\ analysis_result' = IF stored THEN analysis.result ELSE analysis_result
           /\ tmp_files' = IF stored THEN tmp_files        \* os.remove(tmp_file_path)
                           ELSE tmp_files \cup {tmp_file_path}
           /\ attempt' = [n |-> tmp_file_path,
                          mode |-> IF audio.resource THEN interview_mode ELSE "",
                          errors |-> errors,
                          stored |-> stored,
                          result |-> analysis_result']
           /\ messages' = errors
    /\ UNCHANGED <<widgetVars, logo>>
    /\ RunReportBlock

InitApp ==
    /\ AppStart
    /\ CleanIdle
    /\ ParseIdle
    /\ data = Content(Missing, Missing, Missing, Missing)
    /\ mode = "meeting"
    /\ topic = <<>>
    /\ report = NoReport
    /\ logo \in {"absent", "ok", "bad"}

NextApp ==
    \/ \E k \in {"", "key"} : EnterApiKey(k)
    \/ \E m \in {"interview", "meeting"} : SelectTaskMode(m)
    \/ \E t \in {"commercial", "clinical"} : SelectSubType(t)
    \/ \E c \in {<<>>, <<"Medtronic">>} : EnterCompany(c)
    \/ \E c \in {<<>>, <<"Stapler">>} : EnterProduct(c)
    \/ \E c \in {<<>>, <<"Weekly", " ", "Sync">>} : EnterTopic(c)
    \/ \E f \in {"", "call.m4a"} : UploadFile(f)
    \/ ClickReset
    \/ \E init_failed \in BOOLEAN, service \in {"exception", "FAILED", "ACTIVE"},
          response \in Responses :
           ClickStartAnalysis(init_failed, service, response)

SpecApp == InitApp /\ [][NextApp]_vars

\* C6: once a Start Analysis attempt has ended, the temporary audio file made
\* for it no longer exists, whether the attempt stored a result or failed.
C6_TempFileReleased ==
    attempt.n > 0 => attempt.n \notin tmp_files

\* C7: every Start Analysis attempt ends either with a result stored in
\* analysis_result and no failure shown, or with exactly one failure shown and
\* analysis_result None; none ends with neither.
C7_ResultOrOneFailure ==
    attempt.n > 0 =>
        \/ /\ attempt.stored /\ Truthy(attempt.result)
           /\ attempt.errors = <<>>
        \/ /\ ~attempt.stored /\ attempt.result = PyNone
           /\ Len(attempt.errors) = 1

\* C13: whenever a script run builds a report from the result that the last
\* Start Analysis stored, the mode given to generate_word_report is the mode
\* that was given to analyze_interview when that result was extracted.
C13_ReportModeIsExtractionMode ==
    (attempt.stored /\ Truthy(analysis_result) /\ docx_mode # "")
        => docx_mode = attempt.mode

====
